---- MODULE Spec2Model ----
\* SybilScan scoring service: the batch job store (services/jobs.py, routes/score.py),
\* the scoring engine (services/model.py) and the chain data source
\* (services/etherscan.py), as state machines.
\*
\* Units.  Floats are modelled by integers:
\*   - counts and wallet_age_days are whole numbers, NaN is a reserved value;
\*   - a classifier probability p is carried in percent (0..100);
\*   - a raw anomaly value is carried in hundredths (_iso_min = -0.18 is -18);
\*   - the blended score `final` is carried in units of 1/3000, the common
\*     denominator of 0.7 * (P/100) and 0.3 * (n/30).
\* Addresses are sequences of one-character strings, so that strip() and lower()
\* are computed, not assumed.
EXTENDS Integers, Sequences, FiniteSets, TLC

VARIABLES
    jobs,       \* jobs.py:12        the in-memory job store, job_id -> record
    tasks,      \* jobs.py:34-54     each scheduled run_job coroutine: its position
    response    \* score.py:32-60    the response the current step writes, code 0
                \*                   when the step is not an endpoint handler

VARIABLES
    _key_idx,   \* etherscan.py:39     the round-robin index into _ETH_KEYS
    keys_drawn, \* etherscan.py:47-49  the keys _get_key has taken from the pool
    call,       \* model.py:155-193    the score_address_live call in progress
    fetch       \* etherscan.py:63-80  the _fetch retrieval in progress

VARIABLES
    vector,     \* model.py:89         the feature dict given to _score_features
    scored      \* model.py:115-130    what _score_features returned or raised

jobVars == <<jobs, tasks, response>>
liveVars == <<_key_idx, keys_drawn, call, fetch>>
scoreVars == <<vector, scored>>
vars == <<jobs, tasks, response, _key_idx, keys_drawn, call, fetch, vector, scored>>

\* ------------------------------------------------------------------ bounds
\* Jobs submitted, and addresses submitted over all jobs.
MaxJobs == 2
MaxTotal == 3
\* A new score_address_live call is taken while _key_idx is below this.
MaxKeyIdx == 6
\* jobs.py:41 sets batch_size = 1000; the model scales it down so that a job of
\* MaxTotal addresses runs several batches, the last one partial.
batch_size == 2

\* ------------------------------------------------------------------ helpers
\* Reserved values of the integer encoding: float("nan") and Python's None.
NaN == 0 - 1000000
None == 0 - 2000000

isnan(x) == x = NaN

\* Python's `x or d`: d when x is falsy (0 / 0.0); NaN is truthy.
PyOr(x, d) == IF x = 0 THEN d ELSE x

\* Python's a > b and a < b on floats: every comparison with NaN is False.
gt(a, b) == ~isnan(a) /\ ~isnan(b) /\ a > b
lt(a, b) == ~isnan(a) /\ ~isnan(b) /\ a < b

Min2(a, b) == IF a < b THEN a ELSE b
Max2(a, b) == IF a > b THEN a ELSE b

\* round(n / d) for d > 0, n >= 0, ties to the even integer (Python's round()).
round_div(n, d) ==
    LET q == n \div d
        r == n % d
    IN  IF 2 * r < d THEN q
        ELSE IF 2 * r > d THEN q + 1
        ELSE IF q % 2 = 0 THEN q ELSE q + 1

\* str.lower() on one character of the model's alphabet.
lower_char(c) ==
    CASE c = "A" -> "a"
      [] c = "B" -> "b"
      [] c = "C" -> "c"
      [] c = "D" -> "d"
      [] c = "E" -> "e"
      [] c = "F" -> "f"
      [] c = "X" -> "x"
      [] OTHER -> c

lower(s) == [k \in 1..Len(s) |-> lower_char(s[k])]

RECURSIVE lstrip(_)
lstrip(s) == IF s # <<>> /\ Head(s) = " " THEN lstrip(Tail(s)) ELSE s

RECURSIVE rstrip(_)
rstrip(s) == IF s # <<>> /\ s[Len(s)] = " " THEN rstrip(SubSeq(s, 1, Len(s) - 1)) ELSE s

strip(s) == rstrip(lstrip(s))

\* addr = address.strip().lower()      (model.py:137, model.py:162)
normalize(address) == lower(strip(address))

\* ------------------------------------------------------------------ exceptions
\* A Python call either returns a value or raises.
Return(v) == [raised |-> FALSE, value |-> v]
Raise(e) == [raised |-> TRUE, error |-> e]

\* ------------------------------------------------------------------ RiskModel
\* model.py:32  _iso_min, _iso_max = -0.18, 0.12   (hundredths)
_iso_min == -18
_iso_max == 12

\* One unit of a normalized / blended score: 1/3000.
Unit == 30 * 100

clip(x, lo, hi) == Max2(lo, Min2(hi, x))

\* model.py:36-38, the body of _normalize_iso over a reference range lo..hi.
\* raw, lo, hi in hundredths, the result in 1/Unit.
normalize_between(raw, lo, hi) ==
    IF hi = lo
    THEN Unit \div 2
    ELSE clip(((raw - lo) * Unit) \div (hi - lo), 0, Unit)

\* Variant of _normalize_iso: the quotient is returned without np.clip.
_normalize_iso_unclipped(raw) ==
    IF _iso_max = _iso_min
    THEN Unit \div 2
    ELSE ((raw - _iso_min) * Unit) \div (_iso_max - _iso_min)
\* model.py:35-38 with the reference range of model.py:32.
_normalize_iso(raw) == normalize_between(raw, _iso_min, _iso_max)

\* The two pretrained artefacts (model.py:19-20) are not part of the repository.
\* Each is a deterministic function of the feature vector; the value it takes on
\* a vector is carried with the vector (lgb: percent, iso_decision: hundredths).
predict_proba(features) == features.lgb
decision_function(features) == features.iso_decision

\* Variant of sybil_type_of: the wallet-age test comes first.
sybil_type_of_age_first(features) ==
    LET buy_count      == PyOr(features.buy_count, 0)
        blend_in_count == PyOr(features.blend_in_count, 0)
        wallet_age     == PyOr(features.wallet_age_days, 9999)
    IN  IF lt(wallet_age, 30) THEN "new_wallet"
        ELSE IF gt(buy_count, 9000) \/ gt(blend_in_count, 100) THEN "hyperactive_bot"
        ELSE IF gt(buy_count, 794) THEN "mid_volume"
        ELSE "retail_hunter"
\* model.py:99-110: the behavioural tag, an ordered decision list.
sybil_type_of(features) ==
    LET buy_count      == PyOr(features.buy_count, 0)
        blend_in_count == PyOr(features.blend_in_count, 0)
        wallet_age     == PyOr(features.wallet_age_days, 9999)
    IN  IF gt(buy_count, 9000) \/ gt(blend_in_count, 100) THEN "hyperactive_bot"
        ELSE IF gt(buy_count, 794) THEN "mid_volume"
        ELSE IF lt(wallet_age, 30) THEN "new_wallet"
        ELSE "retail_hunter"

\* model.py:113  risk band of an integer sybil_score.
risk_of(sybil_score) ==
    IF sybil_score >= 70 THEN "high"
    ELSE IF sybil_score >= 40 THEN "medium"
    ELSE "low"

\* model.py:97  final = lgb_score * 0.7 + if_norm * 0.3, in 1/Unit.
blend(lgb_score, if_norm) == (7 * (Unit \div 100) * lgb_score + 3 * if_norm) \div 10

\* model.py:89-130.  int(features.get("tx_count", 0)) raises ValueError on NaN
\* (model.py:123); the int() of model.py:125-126 behave alike and are not carried.
_score_features(features, addr) ==
    LET lgb_score   == predict_proba(features)
        iso_raw     == 0 - decision_function(features)
        if_norm     == _normalize_iso(iso_raw)
        final       == blend(lgb_score, if_norm)
        sybil_score == Min2(100, Max2(0, round_div(final * 100, Unit)))
    IN  IF isnan(features.tx_count)
        THEN Raise("ValueError")
        ELSE Return([address         |-> addr,
                     sybil_score     |-> sybil_score,
                     score           |-> round_div(final * 10000, Unit),
                     lgb_score       |-> lgb_score * 100,
                     if_score        |-> round_div(if_norm * 10000, Unit),
                     risk            |-> risk_of(sybil_score),
                     sybil_type      |-> sybil_type_of(features),
                     tx_count        |-> features.tx_count,
                     wallet_age_days |-> features.wallet_age_days,
                     data_source     |-> "cached"])

\* ------------------------------------------------------------------ lookup table
\* model.py:24-28  df_lookup, the address-indexed feature table read at start-up.
\* Two rows: a scored one, and one whose tx_count cell is empty (NaN after read_csv).
df_lookup ==
    (<<"0", "x", "a", "b">> :>
        [buy_count |-> 10000, blend_in_count |-> 0, wallet_age_days |-> 2,
         tx_count |-> 12000, lgb |-> 90, iso_decision |-> -10])
    @@
    (<<"0", "x", "c", "d">> :>
        [buy_count |-> 5, blend_in_count |-> 0, wallet_age_days |-> 400,
         tx_count |-> NaN, lgb |-> 20, iso_decision |-> 5])

\* model.py:140 / model.py:167
\*   features = {f: float(row.get(f, 0) or 0) for f in feature_names}
row_features(row) == [f \in DOMAIN row |-> PyOr(row[f], 0)]

\* model.py:144-150  the marker of an address that has no row.
not_found(addr) ==
    [address |-> addr, score |-> None, risk |-> "unknown",
     sybil_type |-> "unknown", data_source |-> "not_found"]

\* Variant of score_one: the address is looked up as given.
score_one_unnormalized(address) ==
    IF address \in DOMAIN df_lookup
    THEN _score_features(row_features(df_lookup[address]), address)
    ELSE Return(not_found(address))
\* model.py:136-151  one iteration of the loop of score_addresses.
score_one(address) ==
    LET addr == normalize(address)
    IN  IF addr \in DOMAIN df_lookup
        THEN _score_features(row_features(df_lookup[addr]), addr)
        ELSE Return(not_found(addr))

\* model.py:133-152  score_addresses: the results in input order, or the first
\* exception an iteration raises (nothing catches it).
RECURSIVE score_addresses(_)
score_addresses(addresses) ==
    IF addresses = <<>>
    THEN Return(<<>>)
    ELSE LET first == score_one(Head(addresses))
         IN  IF first.raised
             THEN first
             ELSE LET rest == score_addresses(Tail(addresses))
                  IN  IF rest.raised
                      THEN rest
                      ELSE Return(<<first.value>> \o rest.value)

\* ------------------------------------------------------------------ ChainDataSource
\* etherscan.py:12-29  CHAIN_CONFIG with no ETHERSCAN_* variable set: three of its
\* fourteen entries, one with the key of its own ("eth"), one that shares that key
\* ("linea"), one with no key ("arb").  Keys are abbreviated to four characters.
CHAIN_CONFIG ==
    [eth   |-> [chainid |-> 1,     key |-> "EH2E"],
     arb   |-> [chainid |-> 42161, key |-> ""],
     linea |-> [chainid |-> 59144, key |-> "EH2E"]]

\* etherscan.py:35-38
_ETH_KEYS == <<"EH2E", "NPSP">>

\* etherscan.py:63  retries: int = 3
retries == 3

\* CHAIN_CONFIG.get(chain, CHAIN_CONFIG["eth"])   (etherscan.py:43, etherscan.py:52)
chain_cfg(chain) ==
    IF chain \in DOMAIN CHAIN_CONFIG THEN CHAIN_CONFIG[chain] ELSE CHAIN_CONFIG["eth"]

\* Variant of _get_key: the index is not advanced.
_get_key_stuck(chain) ==
    LET cfg == chain_cfg(chain)
    IN  IF cfg.key # ""
        THEN [key |-> cfg.key, idx |-> _key_idx, pooled |-> FALSE]
        ELSE [key    |-> _ETH_KEYS[(_key_idx % Len(_ETH_KEYS)) + 1],
              idx    |-> _key_idx,
              pooled |-> TRUE]
\* etherscan.py:41-49  the key, and the value _key_idx has afterwards.
_get_key(chain) ==
    LET cfg == chain_cfg(chain)
    IN  IF cfg.key # ""
        THEN [key |-> cfg.key, idx |-> _key_idx, pooled |-> FALSE]
        ELSE [key    |-> _ETH_KEYS[(_key_idx % Len(_ETH_KEYS)) + 1],
              idx    |-> _key_idx + 1,
              pooled |-> TRUE]

\* etherscan.py:51-52
_get_chainid(chain) == chain_cfg(chain).chainid

\* What one HTTP GET can come to: status "1"; message "No transactions found";
\* "rate limit" in the result; another non-success status; a timeout or transport
\* error raised by client.get; a body resp.json() cannot parse.
Outcomes == {"ok", "no_tx", "rate_limit", "error_status", "timeout", "malformed"}

\* Variant of _fetch_handle: no except clause, an exception leaves _fetch.
_fetch_handle_no_except(outcome) ==
    CASE outcome = "ok"           -> [do |-> "return", ret |-> "data", wait |-> 0]
      [] outcome = "no_tx"        -> [do |-> "return", ret |-> "empty", wait |-> 0]
      [] outcome = "rate_limit"   -> [do |-> "continue", ret |-> "", wait |-> 15]
      [] outcome = "error_status" -> [do |-> "return", ret |-> "empty", wait |-> 0]
      [] OTHER                    -> [do |-> "raise", ret |-> "", wait |-> 0]
\* etherscan.py:67-79  the body of the attempt loop on one outcome: return a
\* value, or wait (tenths of a second) and go on to the next attempt.
_fetch_handle(outcome) ==
    CASE outcome = "ok"           -> [do |-> "return", ret |-> "data", wait |-> 0]
      [] outcome = "no_tx"        -> [do |-> "return", ret |-> "empty", wait |-> 0]
      [] outcome = "rate_limit"   -> [do |-> "continue", ret |-> "", wait |-> 15]
      [] outcome = "error_status" -> [do |-> "return", ret |-> "empty", wait |-> 0]
      [] OTHER                    -> [do |-> "continue", ret |-> "", wait |-> 10]

idle_fetch ==
    [pc |-> "idle", chain |-> "", apikey |-> "", chainid |-> 0, pooled |-> FALSE,
     attempt |-> 0, log |-> <<>>, ret |-> ""]

\* etherscan.py:64-66  _fetch up to its first GET: the key and the chain id are
\* put into params once, before the loop.
start_fetch(chain) ==
    LET k == _get_key(chain)
    IN  [pc |-> "get", chain |-> chain, apikey |-> k.key, chainid |-> _get_chainid(chain),
         pooled |-> k.pooled, attempt |-> 0, log |-> <<>>, ret |-> ""]

\* The effect of start_fetch on the rotation state.
draw_key(chain) ==
    LET k == _get_key(chain)
    IN  /\ _key_idx' = k.idx
        /\ keys_drawn' = IF k.pooled THEN Append(keys_drawn, k.key) ELSE keys_drawn

\* ------------------------------------------------------------------ ScoringEngine
LiveAddresses ==
    { <<" ", "0", "X", "A", "B", " ">>,
      <<"0", "x", "c", "d">>,
      <<"0", "x", "e", "f">> }

\* "foo" is no key of CHAIN_CONFIG.
Chains == {"eth", "arb", "linea", "foo"}

\* etherscan.py:214-224  _zero_features, with the artefacts' values on that vector.
_zero_features ==
    [buy_count |-> 0, blend_in_count |-> 0, wallet_age_days |-> 0, tx_count |-> 0,
     lgb |-> 5, iso_decision |-> 8]

\* etherscan.py:130-211  the vector fetch_features computes from a non-empty
\* history is a function of the records fetched, which the model does not carry:
\* any of these vectors may come out (all finite, wallet_age_days > 0).
LiveFeatures ==
    { [buy_count |-> 10000, blend_in_count |-> 0, wallet_age_days |-> 2,
       tx_count |-> 10000, lgb |-> 95, iso_decision |-> -12],
      [buy_count |-> 3, blend_in_count |-> 0, wallet_age_days |-> 700,
       tx_count |-> 9, lgb |-> 45, iso_decision |-> 0] }

\* Variant of fast_path: the chain is not looked at.
fast_path_any_chain(addr, chain) == addr \in DOMAIN df_lookup
\* model.py:165  the fast path: only for the dataset's own chain.
fast_path(addr, chain) == chain = "eth" /\ addr \in DOMAIN df_lookup

\* model.py:166-171  the cached result; an exception of _score_features is not
\* caught here.
cached_result(addr, chain) ==
    LET r == _score_features(row_features(df_lookup[addr]), addr)
    IN  IF r.raised
        THEN r
        ELSE Return([chain |-> chain] @@ [r.value EXCEPT !.data_source = "cached"])

\* model.py:184-193  the result of the except clause.
error_result(addr, chain, e) ==
    [address |-> addr, score |-> None, risk |-> "error", sybil_type |-> "error",
     error |-> e, chain |-> chain, data_source |-> "error"]

\* model.py:174-193  the slow path once fetch_features has returned `fetched`
\* or raised: everything is inside the try.
live_result(addr, chain, fetched) ==
    IF fetched.raised
    THEN Return(error_result(addr, chain, fetched.error))
    ELSE LET r == _score_features(fetched.value, addr)
         IN  IF r.raised
             THEN Return(error_result(addr, chain, r.error))
             ELSE Return([chain |-> chain] @@
                         [r.value EXCEPT !.data_source = "live",
                                         !.wallet_age_days = fetched.value.wallet_age_days])

idle_call ==
    [pc |-> "idle", address |-> <<>>, chain |-> "", addr |-> <<>>, retrieval |-> 0,
     txs |-> FALSE, any_data |-> FALSE, fetched |-> FALSE, fetch_chain |-> "",
     outcome |-> Return(None)]

\* model.py:155-175 with etherscan.py:83-99 and etherscan.py:63-68
\* score_address_live up to its first await: either the fast path, which
\* returns or raises at once, or fetch_features and the first GET of its first
\* retrieval.
score_address_live(address, chain) ==
    /\ call.pc \in {"idle", "done"}
    /\ _key_idx < MaxKeyIdx
    /\ LET addr == normalize(address)
           begun == [idle_call EXCEPT !.address = address, !.chain = chain, !.addr = addr]
       IN  IF fast_path(addr, chain)
           THEN /\ call' = [begun EXCEPT !.pc = "done", !.outcome = cached_result(addr, chain)]
                /\ fetch' = idle_fetch
                /\ UNCHANGED <<_key_idx, keys_drawn>>
           ELSE /\ call' = [begun EXCEPT !.pc = "fetching", !.retrieval = 1,
                                         !.fetched = TRUE, !.fetch_chain = chain]
                /\ fetch' = start_fetch(chain)
                /\ draw_key(chain)
    /\ UNCHANGED <<jobVars, scoreVars>>

\* etherscan.py:66-80  one attempt: the GET resolves to `outcome`; the loop body
\* returns, raises, or waits and goes on; after the last attempt _fetch returns
\* the empty result.
_fetch_attempt(outcome) ==
    /\ fetch.pc = "get"
    /\ LET h == _fetch_handle(outcome)
           entry == [apikey |-> fetch.apikey, chainid |-> fetch.chainid,
                     outcome |-> outcome, wait |-> h.wait]
           logged == [fetch EXCEPT !.log = Append(@, entry)]
       IN  fetch' =
               CASE h.do = "return" -> [logged EXCEPT !.pc = "returned", !.ret = h.ret]
                 [] h.do = "raise"  -> [logged EXCEPT !.pc = "raised"]
                 [] OTHER ->
                     IF fetch.attempt + 1 < retries
                     THEN [logged EXCEPT !.attempt = @ + 1]
                     ELSE [logged EXCEPT !.pc = "returned", !.ret = "empty"]
    /\ UNCHANGED <<call, _key_idx, keys_drawn, jobVars, scoreVars>>

\* etherscan.py:95-125  fetch_features takes what _fetch returned and starts the
\* next of its four retrievals, or goes on to the feature computation.  An
\* exception of _fetch would leave fetch_features and reach the except clause of
\* score_address_live (model.py:184).
fetch_features_next ==
    /\ call.pc = "fetching"
    /\ fetch.pc \in {"returned", "raised"}
    /\ IF fetch.pc = "raised"
       THEN /\ call' = [call EXCEPT !.pc = "done",
                            !.outcome = live_result(call.addr, call.chain, Raise("HTTPError"))]
            /\ fetch' = fetch
            /\ UNCHANGED <<_key_idx, keys_drawn>>
       ELSE LET got == [call EXCEPT
                           !.txs = IF call.retrieval = 1 THEN fetch.ret = "data" ELSE @,
                           !.any_data = @ \/ fetch.ret = "data"]
            IN  IF call.retrieval < 4
                THEN /\ call' = [got EXCEPT !.retrieval = @ + 1]
                     /\ fetch' = start_fetch(call.chain)
                     /\ draw_key(call.chain)
                ELSE /\ call' = [got EXCEPT !.pc = "extract"]
                     /\ fetch' = fetch
                     /\ UNCHANGED <<_key_idx, keys_drawn>>
    /\ UNCHANGED <<jobVars, scoreVars>>

\* What fetch_features can come to once the four retrievals are in
\* (etherscan.py:100-211): the zero vector when there is no native transaction
\* (etherscan.py:127-128), a computed vector otherwise, or a ValueError when a
\* fetched record has a field int() cannot read (etherscan.py:100-125).
extractions ==
    (IF call.txs THEN {Return(f) : f \in LiveFeatures} ELSE {Return(_zero_features)})
    \cup (IF call.any_data THEN {Raise("ValueError")} ELSE {})

\* etherscan.py:100-211 and model.py:175-193  fetch_features returns or raises,
\* and score_address_live scores and returns.
score_address_live_finish ==
    /\ call.pc = "extract"
    /\ \E fetched \in extractions :
           call' = [call EXCEPT !.pc = "done",
                                !.outcome = live_result(call.addr, call.chain, fetched)]
    /\ UNCHANGED <<fetch, _key_idx, keys_drawn, jobVars, scoreVars>>

InitLive ==
    /\ _key_idx = 0
    /\ keys_drawn = <<>>
    /\ call = idle_call
    /\ fetch = idle_fetch

InitScore ==
    /\ vector = _zero_features
    /\ scored = <<>>

\* ------------------------------------------------------------------ JobManager
\* The addresses a client may submit: a table address in mixed case with padding,
\* the address of the row with the empty cell, and a string that has no row and
\* is too short to be an address.
JobAddresses ==
    { <<" ", "0", "X", "A", "B", " ">>,
      <<"0", "x", "c", "d">>,
      <<"0", "x", "1">> }

\* score.py:19-21  ScoreRequest.addresses: list[str], min_length=1 (no maximum).
AddressLists == UNION { [1..n -> JobAddresses] : n \in 1..MaxTotal }

JobIds == 1..MaxJobs

RECURSIVE SumTotals(_)
SumTotals(ids) ==
    IF ids = {} THEN 0
    ELSE LET id == CHOOSE x \in ids : TRUE
         IN  jobs[id].total + SumTotals(ids \ {id})

\* jobs.py:16  job_id = str(uuid.uuid4()): a fresh identifier.
fresh_job_id == Cardinality(DOMAIN jobs) + 1

\* jobs.py:17-26  the record create_job stores.
new_job(job_id, addresses) ==
    [job_id       |-> job_id,
     status       |-> "pending",
     addresses    |-> addresses,
     results      |-> <<>>,
     total        |-> Len(addresses),
     completed    |-> 0,
     completed_at |-> None]

\* jobs.py:24, jobs.py:54  datetime.now(timezone.utc).isoformat(): a timestamp.
now == 1

\* jobs.py:44  batch = addresses[i : i + batch_size]   (i counted from 0)
batch_of(addresses, i) == SubSeq(addresses, i + 1, Min2(i + batch_size, Len(addresses)))

\* Variant of absorb: completed grows by the nominal batch size.
absorb_batch_size(job, batch_results) ==
    [job EXCEPT !.results = @ \o batch_results,
                !.completed = @ + batch_size]
\* jobs.py:48-49  results.extend(batch_results); completed += len(batch_results)
absorb(job, batch_results) ==
    [job EXCEPT !.results = @ \o batch_results,
                !.completed = @ + Len(batch_results)]

\* Variant of startable: the background task may be started again after it
\* has returned.
startable_again(job_id) == tasks[job_id].pc \in {"scheduled", "done"}
\* score.py:36  background_tasks.add_task(run_job, job_id): run_job is started
\* once for each job, from the task post_score scheduled.
startable(job_id) == tasks[job_id].pc = "scheduled"

no_response == [code |-> 0]

\* score.py:32-41  POST /v1/score: create_job, schedule run_job, answer.
post_score(addresses) ==
    /\ UNCHANGED <<liveVars, scoreVars>>
    /\ Cardinality(DOMAIN jobs) < MaxJobs
    /\ SumTotals(DOMAIN jobs) + Len(addresses) <= MaxTotal
    /\ LET job_id == fresh_job_id
       IN  /\ jobs' = jobs @@ (job_id :> new_job(job_id, addresses))
           /\ tasks' = tasks @@ (job_id :> [pc |-> "scheduled", i |-> 0])
           /\ response' = [code |-> 200, job_id |-> job_id, status |-> "pending",
                           total |-> Len(addresses)]

\* jobs.py:35-47  run_job up to its first await: the status becomes running and,
\* when there is a batch, it is handed to the executor.
run_job_start(job_id) ==
    /\ UNCHANGED <<liveVars, scoreVars>>
    /\ job_id \in DOMAIN tasks
    /\ startable(job_id)
    /\ IF Len(jobs[job_id].addresses) > 0
       THEN /\ jobs' = [jobs EXCEPT ![job_id].status = "running"]
            /\ tasks' = [tasks EXCEPT ![job_id] = [pc |-> "await", i |-> 0]]
       ELSE /\ jobs' = [jobs EXCEPT ![job_id].status = "complete",
                                    ![job_id].completed_at = now]
            /\ tasks' = [tasks EXCEPT ![job_id] = [pc |-> "done", i |-> 0]]
    /\ response' = no_response

\* Variant of run_job_batch: the record that receives the batch is the one
\* created last (a module-level "current job") instead of the run's own.
run_job_batch_latest(job_id) ==
    /\ UNCHANGED <<liveVars, scoreVars>>
    /\ job_id \in DOMAIN tasks
    /\ tasks[job_id].pc = "await"
    /\ LET job == jobs[job_id]
           latest == Cardinality(DOMAIN jobs)
           batch_results == score_addresses(batch_of(job.addresses, tasks[job_id].i))
       IN  IF batch_results.raised
           THEN /\ tasks' = [tasks EXCEPT ![job_id].pc = "aborted"]
                /\ UNCHANGED jobs
           ELSE /\ jobs' = [jobs EXCEPT ![latest] = absorb(jobs[latest], batch_results.value)]
                /\ tasks' = [tasks EXCEPT ![job_id].pc = "yield"]
    /\ response' = no_response
\* jobs.py:47-51  the executor's future resolves: the batch results are appended
\* and counted, then the coroutine yields (asyncio.sleep(0)).  An exception of
\* score_addresses is re-raised by the await and ends run_job: nothing catches it.
run_job_batch(job_id) ==
    /\ UNCHANGED <<liveVars, scoreVars>>
    /\ job_id \in DOMAIN tasks
    /\ tasks[job_id].pc = "await"
    /\ LET job == jobs[job_id]
           batch_results == score_addresses(batch_of(job.addresses, tasks[job_id].i))
       IN  IF batch_results.raised
           THEN /\ tasks' = [tasks EXCEPT ![job_id].pc = "aborted"]
                /\ UNCHANGED jobs
           ELSE /\ jobs' = [jobs EXCEPT ![job_id] = absorb(job, batch_results.value)]
                /\ tasks' = [tasks EXCEPT ![job_id].pc = "yield"]
    /\ response' = no_response

\* jobs.py:43, 51-54  the coroutine resumes after the yield: the next batch goes
\* to the executor, or the loop is over and the job is complete.
run_job_resume(job_id) ==
    /\ UNCHANGED <<liveVars, scoreVars>>
    /\ job_id \in DOMAIN tasks
    /\ tasks[job_id].pc = "yield"
    /\ LET i == tasks[job_id].i + batch_size
       IN  IF i < Len(jobs[job_id].addresses)
           THEN /\ tasks' = [tasks EXCEPT ![job_id] = [pc |-> "await", i |-> i]]
                /\ UNCHANGED jobs
           ELSE /\ jobs' = [jobs EXCEPT ![job_id].status = "complete",
                                        ![job_id].completed_at = now]
                /\ tasks' = [tasks EXCEPT ![job_id] = [pc |-> "done", i |-> i]]
    /\ response' = no_response

\* score.py:52-54  the number of results in a risk band.
count_risk(results, band) == Cardinality({k \in 1..Len(results) : results[k].risk = band})

\* score.py:44-60  GET /v1/jobs/{job_id}: the job with its progress and summary,
\* or 404.  jobs.py:30-31 get_job is the lookup.
get_job_status(job_id) ==
    /\ UNCHANGED <<liveVars, scoreVars>>
    /\ IF job_id \notin DOMAIN jobs
       THEN response' = [code |-> 404]
       ELSE LET job == jobs[job_id]
            IN  response' = [code      |-> 200,
                             job_id    |-> job_id,
                             status    |-> job.status,
                             progress  |-> <<job.completed, job.total>>,
                             n_results |-> Len(job.results),
                             summary   |-> [high   |-> count_risk(job.results, "high"),
                                            medium |-> count_risk(job.results, "medium"),
                                            low    |-> count_risk(job.results, "low")]]
    /\ UNCHANGED <<jobs, tasks>>

InitJobs ==
    /\ jobs = <<>>
    /\ tasks = <<>>
    /\ response = no_response

Init ==
    /\ InitJobs
    /\ InitLive
    /\ InitScore

Next ==
    \/ \E addresses \in AddressLists : post_score(addresses)
    \/ \E job_id \in JobIds : run_job_start(job_id)
    \/ \E job_id \in JobIds : run_job_batch(job_id)
    \/ \E job_id \in JobIds : run_job_resume(job_id)
    \/ \E job_id \in JobIds : get_job_status(job_id)

Spec == Init /\ [][Next]_vars

\* The scoring engine's live path on its own: no job is submitted.
InitLiveSpec ==
    /\ InitJobs
    /\ InitLive
    /\ InitScore

NextLive ==
    \/ \E address \in LiveAddresses, chain \in Chains : score_address_live(address, chain)
    \/ \E outcome \in Outcomes : _fetch_attempt(outcome)
    \/ fetch_features_next
    \/ score_address_live_finish

SpecLive == InitLiveSpec /\ [][NextLive]_vars

\* ------------------------------------------------------------------ _score_features alone
\* The feature dicts _score_features is applied to: values on both sides of every
\* threshold of model.py:103-107, NaN cells, and values of the two artefacts.
FeatureVectors ==
    [buy_count       : {0, 794, 795, 9000, 9001, 10000, NaN},
     blend_in_count  : {0, 100, 101},
     wallet_age_days : {0, 2, 29, 30, 31, NaN},
     tx_count        : {0, 7, NaN},
     lgb             : {0, 50, 100},
     iso_decision    : {-30, -12, 0, 18, 30}]

InitScoreSpec ==
    /\ InitJobs
    /\ InitLive
    /\ vector \in FeatureVectors
    /\ scored = <<>>

\* model.py:89-130  one call of _score_features on the vector.
call_score_features ==
    /\ scored = <<>>
    /\ scored' = <<_score_features(vector, <<"0", "x", "a", "b">>)>>
    /\ UNCHANGED <<vector, jobVars, liveVars>>

NextScore == call_score_features

SpecScore == InitScoreSpec /\ [][NextScore]_vars

\* ------------------------------------------------------------------ claims: jobs
rank(status) == CASE status = "pending" -> 0 [] status = "running" -> 1 [] status = "complete" -> 2

in_table(address) == normalize(address) \in DOMAIN df_lookup

count_source(results, source) ==
    Cardinality({k \in 1..Len(results) : results[k].data_source = source})

count_in_table(addresses) ==
    Cardinality({k \in 1..Len(addresses) : in_table(addresses[k])})

\* An address as the spec's InvalidInput means it, at the model's scale: "0x"
\* followed by two hexadecimal digits, once normalized.
hex_digits == {"0", "1", "2", "3", "4", "5", "6", "7", "8", "9", "a", "b", "c", "d", "e", "f"}
well_formed(address) ==
    LET addr == normalize(address)
    IN  /\ Len(addr) = 4
        /\ addr[1] = "0" /\ addr[2] = "x"
        /\ addr[3] \in hex_digits /\ addr[4] \in hex_digits

\* C1: for every job created by create_job and run by run_job, 0 <= completed <=
\* total in every state (before the run, at each await and yield, after the run),
\* total is the length of the input list, and once run_job has returned
\* completed = total and status = "complete".
C1_CompletedWithinTotal ==
    \A job_id \in DOMAIN jobs :
        LET job == jobs[job_id]
        IN  /\ job.total = Len(job.addresses)
            /\ 0 <= job.completed
            /\ job.completed <= job.total
            /\ tasks[job_id].pc = "scheduled" => job.completed = 0
            /\ tasks[job_id].pc = "done" =>
                   job.completed = job.total /\ job.status = "complete"

\* A job of more than one batch whose run has returned.
C1_Witness ==
    \E job_id \in DOMAIN jobs :
        /\ tasks[job_id].pc = "done"
        /\ jobs[job_id].total > batch_size
        /\ jobs[job_id].completed = jobs[job_id].total

C3_BatchAlwaysCompletes ==
    \A job_id \in DOMAIN jobs :
        tasks[job_id].pc \in {"done", "aborted"} =>
            /\ jobs[job_id].status = "complete"
            /\ Len(jobs[job_id].results) = jobs[job_id].total

\* C4: the results a job holds are, position by position, those of its input
\* addresses: the address normalized, data_source "cached" with a score when the
\* normalized address has a row, "not_found" with score None when it has none;
\* a job whose run has returned holds one result per address, k of them scored
\* and n - k not_found, where k counts the input addresses that have a row.
\* No retrieval of the chain data source is started and no pool key is taken.
C4_BatchScoringCachedOnly ==
    \A job_id \in DOMAIN jobs :
        LET job == jobs[job_id]
        IN  /\ fetch.pc = "idle" /\ fetch.log = <<>> /\ keys_drawn = <<>>
            /\ Len(job.results) <= Len(job.addresses)
            /\ \A k \in 1..Len(job.results) :
                   LET r == job.results[k]
                   IN  /\ r.address = normalize(job.addresses[k])
                       /\ IF in_table(job.addresses[k])
                          THEN r.data_source = "cached" /\ r.score # None
                          ELSE r.data_source = "not_found" /\ r.score = None
            /\ tasks[job_id].pc = "done" =>
                   /\ Len(job.results) = job.total
                   /\ count_source(job.results, "cached") = count_in_table(job.addresses)
                   /\ count_source(job.results, "not_found")
                          = job.total - count_in_table(job.addresses)

\* The spec's scenario: three addresses, one in the table, two absent.
C4_Witness ==
    \E job_id \in DOMAIN jobs :
        /\ tasks[job_id].pc = "done"
        /\ jobs[job_id].total = 3
        /\ count_source(jobs[job_id].results, "cached") = 1
        /\ count_source(jobs[job_id].results, "not_found") = 2

\* The results score_addresses gives for the first n addresses of a job's own
\* input list, position by position.
own_results(job, n) ==
    /\ n <= Len(job.addresses)
    /\ Len(job.results) = n
    /\ \A k \in 1..n :
           /\ ~score_one(job.addresses[k]).raised
           /\ job.results[k] = score_one(job.addresses[k]).value

C10_InvalidInputRejected ==
    \A job_id \in DOMAIN jobs :
        \A k \in 1..Len(jobs[job_id].addresses) : well_formed(jobs[job_id].addresses[k])

\* ------------------------------------------------------------------ claims: live
finished == call.pc = "done"

cached_case == call.chain = "eth" /\ in_table(call.address)

\* C5: when a score_address_live call has ended, the chain data source was left
\* alone if and only if the normalized address has a row and chain = "eth"; a
\* result it returned is tagged "cached" in exactly that case; in every other
\* case fetch_features was called with the requested chain and a result that is
\* not the error result is tagged "live".  Every result carries the requested chain.
C5_CachedIffRowAndNativeChain ==
    finished =>
        /\ ~call.fetched <=> cached_case
        /\ ~call.outcome.raised =>
               /\ call.outcome.value.data_source = "cached" <=> cached_case
               /\ call.outcome.value.chain = call.chain
               /\ call.outcome.value.address = normalize(call.address)
        /\ ~cached_case =>
               /\ call.fetch_chain = call.chain
               /\ ~call.outcome.raised
               /\ call.outcome.value.risk # "error" => call.outcome.value.data_source = "live"

\* A table address scored live because the chain is not "eth".
C5_Witness ==
    /\ finished
    /\ in_table(call.address)
    /\ call.chain = "arb"
    /\ ~call.outcome.raised
    /\ call.outcome.value.data_source = "live"

\* C6 (as claimed): score_address_live never propagates an exception: a call
\* that has ended has returned a result.
C6_NeverPropagates == finished => ~call.outcome.raised

outcome_at(k) == fetch.log[k].outcome

\* C7 (as claimed): at most 3 GETs for a retrieval, an attempt is followed by
\* another one only after a rate-limit signal, and _fetch ends by returning the
\* data or the empty result, never by raising.
C7_RetryOnlyOnRateLimit ==
    /\ Len(fetch.log) <= 3
    /\ \A k \in 1..(Len(fetch.log) - 1) : outcome_at(k) = "rate_limit"
    /\ fetch.pc # "raised"
    /\ fetch.pc = "returned" => fetch.ret \in {"data", "empty"}

\* C7 (amended): at most 3 GETs for a retrieval; an attempt is followed by another
\* one exactly when it met a rate-limit signal (after a wait of 1.5 s) or an
\* exception, that is a timeout, a transport error or a malformed body (after a
\* wait of 1 s), and it was not the third; success, "No transactions found" and
\* any other non-success status end the retrieval at once; _fetch returns the
\* data exactly when its last attempt succeeded and the empty result otherwise,
\* and never raises.
C7_BoundedRetriesNeverRaises ==
    /\ Len(fetch.log) <= retries
    /\ fetch.pc = "get" => Len(fetch.log) = fetch.attempt /\ fetch.attempt < retries
    /\ \A k \in 1..Len(fetch.log) :
           /\ k < Len(fetch.log) => outcome_at(k) \in {"rate_limit", "timeout", "malformed"}
           /\ outcome_at(k) = "rate_limit" => fetch.log[k].wait = 15
           /\ outcome_at(k) \in {"timeout", "malformed"} => fetch.log[k].wait = 10
           /\ outcome_at(k) \in {"ok", "no_tx", "error_status"} =>
                  k = Len(fetch.log) /\ fetch.pc = "returned" /\ fetch.log[k].wait = 0
    /\ fetch.pc # "raised"
    /\ fetch.pc = "returned" =>
           /\ Len(fetch.log) >= 1
           /\ fetch.ret \in {"data", "empty"}
           /\ fetch.ret = "data" <=> outcome_at(Len(fetch.log)) = "ok"
           /\ outcome_at(Len(fetch.log)) \in {"rate_limit", "timeout", "malformed"} =>
                  Len(fetch.log) = retries

\* A retrieval that used all three attempts, one of them retried after a
\* timeout, and returned the empty result.
C7_Witness ==
    /\ fetch.pc = "returned"
    /\ Len(fetch.log) = 3
    /\ outcome_at(1) = "timeout"
    /\ outcome_at(2) = "rate_limit"
    /\ fetch.ret = "empty"

dedicated(chain) == chain_cfg(chain).key # ""

\* C8 (as claimed): a chain with a credential of its own uses it, and on a chain
\* without one every attempt takes the next key of the pool, so that two
\* consecutive attempts of a retrieval use different keys.
C8_RotationPerAttempt ==
    fetch.pc # "idle" =>
        /\ dedicated(fetch.chain) =>
               \A k \in 1..Len(fetch.log) : fetch.log[k].apikey = chain_cfg(fetch.chain).key
        /\ ~dedicated(fetch.chain) =>
               \A k \in 1..(Len(fetch.log) - 1) : fetch.log[k].apikey # fetch.log[k + 1].apikey

\* C8 (amended): the credential is selected once for each retrieval, before its
\* first attempt, and every attempt of the retrieval, retries included, uses it.
\* A chain with a credential of its own (or an unknown chain, which takes the
\* configuration of "eth") uses that credential and leaves the rotation alone; a
\* chain without one takes the next key of the shared pool, so that the keys
\* taken from the pool by consecutive retrievals follow the pool in cyclic order.
C8_RotationPerRetrieval ==
    /\ Len(keys_drawn) = _key_idx
    /\ \A n \in 1..Len(keys_drawn) : keys_drawn[n] = _ETH_KEYS[((n - 1) % Len(_ETH_KEYS)) + 1]
    /\ \A n \in 1..(Len(keys_drawn) - 1) : keys_drawn[n] # keys_drawn[n + 1]
    /\ fetch.pc # "idle" =>
           /\ \A k \in 1..Len(fetch.log) : fetch.log[k].apikey = fetch.apikey
           /\ dedicated(fetch.chain) => fetch.apikey = chain_cfg(fetch.chain).key
           /\ ~dedicated(fetch.chain) =>
                  /\ keys_drawn # <<>>
                  /\ fetch.apikey = keys_drawn[Len(keys_drawn)]

\* The second retrieval of a call on a chain without a credential, in its
\* second attempt: the key is the second of the pool, for both attempts.
C8_Witness ==
    /\ call.retrieval = 2
    /\ ~dedicated(fetch.chain)
    /\ Len(fetch.log) = 2
    /\ keys_drawn = <<"EH2E", "NPSP">>
    /\ fetch.log[1].apikey = "NPSP"
    /\ fetch.log[2].apikey = "NPSP"

\* ------------------------------------------------------------------ the score alone
\* Raw anomaly values run over -MaxRaw..MaxRaw hundredths, on both sides of the
\* reference range _iso_min.._iso_max.
MaxRaw == 40

RawValues == (0 - MaxRaw)..MaxRaw

\* Feature dicts for the numerical part of _score_features: every classifier
\* probability in whole percent with every raw anomaly value; the features the
\* tag is computed from are those of an old low-volume wallet.
NumericVectors ==
    [buy_count       : {0},
     blend_in_count  : {0},
     wallet_age_days : {400},
     tx_count        : {7},
     lgb             : 0..100,
     iso_decision    : RawValues]

InitNumeric ==
    /\ InitJobs
    /\ InitLive
    /\ vector \in NumericVectors
    /\ scored = <<>>

SpecNumeric == InitNumeric /\ [][NextScore]_vars
\* ------------------------------------------------------------------ claims: tags
has_result == scored # <<>> /\ ~scored[1].raised

above(x, threshold) == x # NaN /\ x > threshold

hyperactive == above(vector.buy_count, 9000) \/ above(vector.blend_in_count, 100)

\* C9: every scored vector with buy_count above 9000 or blend_in_count above 100
\* is tagged "hyperactive_bot", and every other scored vector with buy_count above
\* 794 is tagged "mid_volume", whatever wallet_age_days is.
C9_TagPriority ==
    has_result =>
        /\ hyperactive => scored[1].value.sybil_type = "hyperactive_bot"
        /\ ~hyperactive /\ above(vector.buy_count, 794) =>
               scored[1].value.sybil_type = "mid_volume"

\* The spec's example: buy_count = 10000 with wallet_age_days = 2.
C9_Witness ==
    /\ has_result
    /\ vector.buy_count = 10000
    /\ vector.wallet_age_days = 2
    /\ scored[1].value.sybil_type = "hyperactive_bot"

\* C13 (as claimed): every scored vector that is neither "hyperactive_bot" nor
\* "mid_volume" (buy_count <= 794 and blend_in_count <= 100) is tagged
\* "new_wallet" exactly when its wallet_age_days is below 30, and "retail_hunter"
\* otherwise, for every wallet_age_days, 0 included.
C13_NewWalletIffYoung ==
    has_result /\ ~isnan(vector.buy_count) /\ vector.buy_count <= 794
               /\ ~isnan(vector.blend_in_count) /\ vector.blend_in_count <= 100 =>
        IF lt(vector.wallet_age_days, 30)
        THEN scored[1].value.sybil_type = "new_wallet"
        ELSE scored[1].value.sybil_type = "retail_hunter"

\* ------------------------------------------------------------------ claims: score
\* C11: for the raw anomaly value of the vector, _normalize_iso is within 0..1,
\* is 0 at and below the reference minimum and 1 at and above the reference
\* maximum, and is not below its value at any smaller raw value; over a reference
\* range of zero width the normalization is 0.5; the blend of the vector's
\* classifier probability with the normalized value is within 0..1, and the
\* returned sybil_score is an integer in 0..100 (score and if_score within 0..1).
C11_NormalizedAndBlendedInRange ==
    LET raw     == 0 - decision_function(vector)
        if_norm == _normalize_iso(raw)
        final   == blend(predict_proba(vector), if_norm)
    IN  /\ if_norm \in 0..Unit
        /\ raw <= _iso_min => if_norm = 0
        /\ raw >= _iso_max => if_norm = Unit
        /\ \A smaller \in RawValues :
               smaller <= raw => _normalize_iso(smaller) <= if_norm
        /\ \A lo \in RawValues : normalize_between(raw, lo, lo) = Unit \div 2
        /\ final \in 0..Unit
        /\ has_result =>
               /\ scored[1].value.sybil_score \in 0..100
               /\ scored[1].value.sybil_score = round_div(final * 100, Unit)
               /\ scored[1].value.score \in 0..10000
               /\ scored[1].value.if_score \in 0..10000

\* A scored vector whose raw anomaly value lies above the reference maximum and
\* whose classifier probability is 1: the normalization clamps and the score is 100.
C11_Witness ==
    /\ has_result
    /\ 0 - decision_function(vector) > _iso_max
    /\ predict_proba(vector) = 100
    /\ scored[1].value.if_score = 10000
    /\ scored[1].value.sybil_score = 100

====
